---- MODULE Spec2Model ----
(***************************************************************************)
(* Frame-stepped model of the asteroids simulation core in                 *)
(* src/CompGraphicsProject/main.cpp: input, spawner, physics integrator,   *)
(* ship-vs-asteroid pass and bullet-vs-asteroid pass with split/destroy.   *)
(*                                                                         *)
(* Numbers are fixed point.  Positions, scales, radii and unit vectors are *)
(* in 1/10000 of a world unit, velocities in 1/10000 world unit per        *)
(* second, time in milliseconds, angles in 1/10000 radian.  A draw of      *)
(* (float)rand()/RAND_MAX is a number in 0..ONE standing for [0,1].        *)
(***************************************************************************)
EXTENDS Integers, Sequences, FiniteSets, TLC

\* ------------------------------------------------------------ fixed point
ONE == 10000
MS == 1000
PI == 31416
TWO_PI == 62832
HALF_PI == 15708

\* ------------------------------------------------------------ constants
MAX_ASTEROIDS_OffByOne == 20 + 1

MAX_ASTEROIDS == 20
INITIAL_SPAWN_RATE == 5000
MIN_SPAWN_RATE == 1000
SPAWN_RATE_STEP == 100
FIRE_RATE == 200
BULLET_SPEED == 25000
THRUST_SPEED == 10000
ROTATION_SPEED == 20000
FRICTION_PERMILLE == 995
BULLET_RADIUS == 100
BULLET_LIFETIME == 1000
WRAP_BOUND == 10000
BULLET_BOUND == 15000
EDGE_COORD == 11000
SPLIT_CHILDREN_One == 2 - 1

SPLIT_CHILDREN == 2

\* ------------------------------------------------------------ arithmetic
Abs(a) == IF a < 0 THEN -a ELSE a

Max(a, b) == IF a >= b THEN a ELSE b

\* Division rounding toward zero, as the product of two floats scaled back.
Quot(a, b) == IF a >= 0 THEN a \div b ELSE -((-a) \div b)

FmodNone(a, b) == a

\* C fmod: the result has the sign of the dividend.
Fmod(a, b) == IF a >= 0 THEN a % b ELSE -((-a) % b)

RECURSIVE IsqrtFrom(_, _)
IsqrtFrom(n, g) ==
    LET h == (g + n \div g) \div 2
    IN IF h >= g THEN g ELSE IsqrtFrom(n, h)

Isqrt(n) == IF n <= 0 THEN 0 ELSE IsqrtFrom(n, n)

\* sin of an angle in [-HALF_PI, HALF_PI] by its Taylor series.
SinSeries(x) ==
    LET x2 == Quot(x * x, ONE)
        t3 == Quot(x * x2, 6 * ONE)
        t5 == Quot(t3 * x2, 20 * ONE)
        t7 == Quot(t5 * x2, 42 * ONE)
        t9 == Quot(t7 * x2, 72 * ONE)
    IN x - t3 + t5 - t7 + t9

Sin(a) ==
    LET r == Fmod(a, TWO_PI)
        s == IF r > PI THEN r - TWO_PI ELSE IF r < -PI THEN r + TWO_PI ELSE r
        f == IF s > HALF_PI THEN PI - s ELSE IF s < -HALF_PI THEN -PI - s ELSE s
    IN SinSeries(f)

Cos(a) == Sin(a + HALF_PI)

VAdd(p, q) == <<p[1] + q[1], p[2] + q[2]>>

VScale(p, k, d) == <<Quot(p[1] * k, d), Quot(p[2] * k, d)>>

\* glm::normalize: the vector scaled to length ONE.
Normalize(p) ==
    LET len == Isqrt(p[1] * p[1] + p[2] * p[2])
    IN IF len = 0 THEN <<0, 0>> ELSE <<Quot(p[1] * ONE, len), Quot(p[2] * ONE, len)>>

\* ------------------------------------------------------------ entities
AsteroidSize == {"SMALL", "MEDIUM", "LARGE"}

getScaleFactor(size) ==
    CASE size = "LARGE" -> 1500
      [] size = "MEDIUM" -> 800
      [] size = "SMALL" -> 400
      [] OTHER -> 1500

getRadiusFactorFlat(size) == getScaleFactor("LARGE")

getRadiusFactor(size) ==
    CASE size = "LARGE" -> 1500
      [] size = "MEDIUM" -> 800
      [] size = "SMALL" -> 400
      [] OTHER -> 1500

\* struct Ship with its default member initialisers.
Ship ==
    [position |-> <<0, 0>>, velocity |-> <<0, 0>>, rotation |-> 0,
     scale |-> getScaleFactor("SMALL"), radius |-> getRadiusFactor("SMALL")]

\* struct Bullet with its default member initialisers.
Bullet ==
    [position |-> <<0, 0>>, velocity |-> <<0, 0>>,
     scale |-> BULLET_RADIUS, radius |-> BULLET_RADIUS, lifetime |-> BULLET_LIFETIME]

palette ==
    << <<10000, 4000, 0>>, <<0, 8000, 8000>>, <<8000, 0, 8000>>,
       <<10000, 10000, 0>>, <<1000, 10000, 1000>> >>

\* ------------------------------------------------------------ GL names
\* Names taken by the five static vertex arrays and buffers made in main
\* before the loop starts.
GL_STATIC_NAMES == 5

\* glGenVertexArrays / glGenBuffers: an unused name (the lowest one).
GenName(used) ==
    CHOOSE n \in 1..(Cardinality(used) + 1) :
        n \notin used /\ \A m \in 1..(n - 1) : m \in used

\* The GL object state: live vertex-array names, live buffer names, and
\* whether a name that was not live has been deleted.
GLInit ==
    [vaos |-> 1..GL_STATIC_NAMES, vbos |-> 1..GL_STATIC_NAMES, badDelete |-> FALSE]

\* setupAsteroidGraphics: one new vertex array and one new buffer for rock.
setupAsteroidGraphics(rock, gl) ==
    LET vao == GenName(gl.vaos)
        vbo == GenName(gl.vbos)
    IN [rock |-> [rock EXCEPT !.VAO_Fill = vao, !.VBO_Fill = vbo],
        gl |-> [gl EXCEPT !.vaos = @ \cup {vao}, !.vbos = @ \cup {vbo}]]

ReleaseShapeLeaky(rock, gl) == gl

\* glDeleteVertexArrays(1, &rock.VAO_Fill); glDeleteBuffers(1, &rock.VBO_Fill)
ReleaseShape(rock, gl) ==
    [vaos |-> gl.vaos \ {rock.VAO_Fill},
     vbos |-> gl.vbos \ {rock.VBO_Fill},
     badDelete |-> gl.badDelete \/ rock.VAO_Fill \notin gl.vaos
                                \/ rock.VBO_Fill \notin gl.vbos]

\* ------------------------------------------------------------ random draws
\* The draws one call of spawnNewAsteroid makes, each standing for
\* (float)rand()/RAND_MAX in 0..ONE, and color for rand() % 5.
Rolls ==
    { [rot |-> 0, color |-> 0, angle |-> 0, speed |-> 0,
       side |-> 0, along |-> 5000, sx |-> 5000, sy |-> 5000],
      [rot |-> 10000, color |-> 4, angle |-> 5000, speed |-> 10000,
       side |-> 6000, along |-> 0, sx |-> 10000, sy |-> 0] }

\* The draws splitAsteroid makes for one child: the two offsets, then the
\* draws of the spawnNewAsteroid call.
SplitDraws ==
    { [ox |-> 0, oy |-> 10000,
       roll |-> [rot |-> 0, color |-> 1, angle |-> 2500, speed |-> 0,
                 side |-> 0, along |-> 0, sx |-> 0, sy |-> 0]],
      [ox |-> 5000, oy |-> 5000,
       roll |-> [rot |-> 5000, color |-> 2, angle |-> 7500, speed |-> 5000,
                 side |-> 3000, along |-> 10000, sx |-> 5000, sy |-> 5000]] }

\* ------------------------------------------------------------ spawning
EraseAtKeep(s, k) == s

\* std::vector::erase(begin() + (k - 1)): indices here are 1-based.
EraseAt(s, k) == [j \in 1..(Len(s) - 1) |-> IF j < k THEN s[j] ELSE s[j + 1]]

\* Position and velocity of an asteroid spawned off screen.
ExternalSpawn(roll) ==
    LET side == roll.side * 4
        coord == Quot(roll.along * 2 * ONE, ONE) - ONE
        position == IF side < 1 * ONE THEN <<coord, EDGE_COORD>>
                    ELSE IF side < 2 * ONE THEN <<coord, -EDGE_COORD>>
                    ELSE IF side < 3 * ONE THEN <<-EDGE_COORD, coord>>
                    ELSE <<EDGE_COORD, coord>>
        aim == Normalize(<<0 - position[1], 0 - position[2]>>)
        scattered == <<aim[1] + Quot((roll.sx - 5000) * 2, 10),
                       aim[2] + Quot((roll.sy - 5000) * 2, 10)>>
        direction == Normalize(scattered)
        speed == 1000 + Quot(roll.speed * 2000, ONE)
    IN [position |-> position, velocity |-> VScale(direction, speed, ONE)]

\* Position and velocity of an asteroid spawned at pos by a split.
InternalSpawn(pos, roll) ==
    LET angle == Quot(roll.angle * TWO_PI, ONE)
        direction == <<Cos(angle), Sin(angle)>>
        speed == 3000 + Quot(roll.speed * 4000, ONE)
    IN [position |-> pos, velocity |-> VScale(direction, speed, ONE)]

\* spawnNewAsteroid(pos, size) on the world w = [asteroids, gl].
spawnNewAsteroid(w, pos, size, roll) ==
    IF Len(w.asteroids) >= MAX_ASTEROIDS THEN w
    ELSE
        LET place == IF pos # <<0, 0>> THEN InternalSpawn(pos, roll)
                     ELSE ExternalSpawn(roll)
            newRock == [size |-> size,
                        scale |-> getScaleFactor(size),
                        radius |-> getRadiusFactor(size),
                        rotation |-> 0,
                        rotationSpeed |-> 3000 + Quot(roll.rot * 5000, ONE),
                        color |-> palette[roll.color + 1],
                        position |-> place.position,
                        velocity |-> place.velocity,
                        VAO_Fill |-> 0, VBO_Fill |-> 0]
            made == setupAsteroidGraphics(newRock, w.gl)
        IN [asteroids |-> Append(w.asteroids, made.rock), gl |-> made.gl]

\* Bytes that are no asteroid of the session, as storage that was handed back
\* may hold.
JunkRock ==
    [size |-> "LARGE", scale |-> 0, radius |-> 0, rotation |-> 0, rotationSpeed |-> 0,
     color |-> <<0, 0, 0>>, position |-> <<-7777, 7777>>, velocity |-> <<0, 0>>,
     VAO_Fill |-> 0, VBO_Fill |-> 0]

\* What the storage slot k of the asteroid vector holds: the element there,
\* or, past the end, the bytes an erased or not yet constructed element left.
SlotBytes(asts, k, residue) == IF k <= Len(asts) THEN asts[k] ELSE residue

\* The loop of splitAsteroid from its n-th round on.  k is the erased index
\* (1-based); rock is still the reference taken to slot k before the erase, so
\* rock.scale and rock.position read whatever slot k holds by now.
RECURSIVE SplitLoop(_, _, _, _, _, _)
SplitLoop(s, k, nextSize, residue, draws, n) ==
    IF n > SPLIT_CHILDREN THEN s
    ELSE IF ~(Len(s.asteroids) < MAX_ASTEROIDS)
    THEN SplitLoop(s, k, nextSize, residue, draws, n + 1)
    ELSE
        LET d == draws[((n - 1) % Len(draws)) + 1]
            rock == SlotBytes(s.asteroids, k, residue)
            offsetX == Quot((d.ox - 5000) * rock.scale, 2 * ONE)
            offsetY == Quot((d.oy - 5000) * rock.scale, 2 * ONE)
            spawnPos == VAdd(rock.position, <<offsetX, offsetY>>)
            w == spawnNewAsteroid([asteroids |-> s.asteroids, gl |-> s.gl],
                                  spawnPos, nextSize, d.roll)
            pushed == Len(w.asteroids) > Len(s.asteroids)
        IN SplitLoop(
               [asteroids |-> w.asteroids, gl |-> w.gl,
                children |-> IF pushed
                             THEN Append(s.children, w.asteroids[Len(w.asteroids)])
                             ELSE s.children,
                reads |-> Append(s.reads,
                                 [position |-> rock.position, scale |-> rock.scale,
                                  offset |-> <<offsetX, offsetY>>])],
               k, nextSize, residue, draws, n + 1)

\* splitAsteroid(asteroids[index], index) with k = index + 1.  The result
\* carries, besides the world, the children pushed and the values read
\* through rock after the erase.
splitAsteroid(w, k, residue, draws) ==
    LET rock == w.asteroids[k]
        untouched == [asteroids |-> w.asteroids, gl |-> w.gl,
                      children |-> <<>>, reads |-> <<>>]
    IN IF rock.size \notin {"LARGE", "MEDIUM"} THEN untouched
       ELSE
           LET nextSize == IF rock.size = "LARGE" THEN "MEDIUM" ELSE "SMALL"
               gl1 == ReleaseShape(w.asteroids[k], w.gl)
               erased == EraseAt(w.asteroids, k)
           IN SplitLoop([asteroids |-> erased, gl |-> gl1,
                         children |-> <<>>, reads |-> <<>>],
                        k, nextSize, residue, draws, 1)

\* ------------------------------------------------------------ input
\* The sets of keys held during one frame.
KeySets == { {}, {"LEFT"}, {"RIGHT"}, {"UP"}, {"SPACE"} }

\* The ship's facing unit vector: its model points up at rotation 0.
Facing(rotation) ==
    LET angleFromXAxis == rotation + HALF_PI
    IN <<Cos(angleFromXAxis), Sin(angleFromXAxis)>>

\* processInput, rotation and thrust, on the globals s it can reach.
Steer(s, dt, keys) ==
    LET turned == s.player.rotation
                  + (IF "LEFT" \in keys THEN Quot(ROTATION_SPEED * dt, MS) ELSE 0)
                  - (IF "RIGHT" \in keys THEN Quot(ROTATION_SPEED * dt, MS) ELSE 0)
        rotation == Fmod(turned, TWO_PI)
        dir == Facing(rotation)
        velocity ==
            IF "UP" \in keys
            THEN <<s.player.velocity[1] + Quot(Quot(dir[1] * THRUST_SPEED, ONE) * dt, MS),
                   s.player.velocity[2] + Quot(Quot(dir[2] * THRUST_SPEED, ONE) * dt, MS)>>
            ELSE s.player.velocity
    IN [s EXCEPT !.player = [@ EXCEPT !.rotation = rotation, !.velocity = velocity],
                 !.isThrusting = "UP" \in keys]

FireBulletUngated(s, keys) ==
    LET dir == Facing(s.player.rotation)
        spawnDistance == Quot(s.player.radius * 15, 10)
        newBullet ==
            [Bullet EXCEPT
                !.position = <<s.player.position[1] + Quot(dir[1] * spawnDistance, ONE),
                               s.player.position[2] + Quot(dir[2] * spawnDistance, ONE)>>,
                !.velocity = <<Quot(dir[1] * BULLET_SPEED, ONE) + s.player.velocity[1],
                               Quot(dir[2] * BULLET_SPEED, ONE) + s.player.velocity[2]>>]
    IN IF "SPACE" \in keys
       THEN [s EXCEPT !.bullets = Append(@, newBullet), !.bulletCooldown = FIRE_RATE]
       ELSE s

\* processInput, firing a bullet.
FireBullet(s, keys) ==
    LET dir == Facing(s.player.rotation)
        spawnDistance == Quot(s.player.radius * 15, 10)
        newBullet ==
            [Bullet EXCEPT
                !.position = <<s.player.position[1] + Quot(dir[1] * spawnDistance, ONE),
                               s.player.position[2] + Quot(dir[2] * spawnDistance, ONE)>>,
                !.velocity = <<Quot(dir[1] * BULLET_SPEED, ONE) + s.player.velocity[1],
                               Quot(dir[2] * BULLET_SPEED, ONE) + s.player.velocity[2]>>]
    IN IF "SPACE" \in keys /\ s.bulletCooldown <= 0
       THEN [s EXCEPT !.bullets = Append(@, newBullet), !.bulletCooldown = FIRE_RATE]
       ELSE s

processInputRestart(s, dt, keys) ==
    [FireBullet(Steer(s, dt, keys), keys) EXCEPT
        !.isGameOver = @ /\ "SPACE" \notin keys]

\* processInput on the globals s = [player, isThrusting, bullets,
\* bulletCooldown, isGameOver], with the frame's deltaTime dt and the held keys.
processInput(s, dt, keys) == FireBullet(Steer(s, dt, keys), keys)

\* The frame running the physics update although the game is over.
AfterInputPhysics(over) == IF over THEN "physics" ELSE "spawner"

AfterInputUnguarded(over) == "spawner"

\* if (!isGameOver): where the loop body goes after the input handling.
AfterInput(over) == IF over THEN "render" ELSE "spawner"

\* ------------------------------------------------------------ physics
checkCollisionApart(pos1, rad1, pos2, rad2) ==
    LET dx == pos1[1] - pos2[1]
        dy == pos1[2] - pos2[2]
        distanceSq == dx * dx + dy * dy
        radiiSumSq == (rad1 + rad2) * (rad1 + rad2)
    IN 0 < distanceSq /\ distanceSq < radiiSumSq

\* checkCollision with the first radius taken twice.
checkCollisionFirstRadius(pos1, rad1, pos2, rad2) ==
    LET dx == pos1[1] - pos2[1]
        dy == pos1[2] - pos2[2]
        distanceSq == dx * dx + dy * dy
        radiiSumSq == (rad1 + rad1) * (rad1 + rad1)
    IN distanceSq < radiiSumSq

\* checkCollision with circles that touch counted as overlapping.
checkCollisionTouching(pos1, rad1, pos2, rad2) ==
    LET dx == pos1[1] - pos2[1]
        dy == pos1[2] - pos2[2]
        distanceSq == dx * dx + dy * dy
        radiiSumSq == (rad1 + rad2) * (rad1 + rad2)
    IN distanceSq <= radiiSumSq

\* bool checkCollision(pos1, rad1, pos2, rad2)
checkCollision(pos1, rad1, pos2, rad2) ==
    LET dx == pos1[1] - pos2[1]
        dy == pos1[2] - pos2[2]
        distanceSq == dx * dx + dy * dy
        radiiSumSq == (rad1 + rad2) * (rad1 + rad2)
    IN distanceSq < radiiSumSq

WrapNone(c) == c

WrapInclusive(c) ==
    IF c >= WRAP_BOUND THEN -WRAP_BOUND
    ELSE IF c <= -WRAP_BOUND THEN WRAP_BOUND
    ELSE c

\* The wrap of one coordinate of a ship or asteroid.
Wrap(c) ==
    IF c > WRAP_BOUND THEN -WRAP_BOUND
    ELSE IF c < -WRAP_BOUND THEN WRAP_BOUND
    ELSE c

Advance(position, velocity, dt) ==
    <<position[1] + Quot(velocity[1] * dt, MS), position[2] + Quot(velocity[2] * dt, MS)>>

\* Player physics update.
PlayerPhysics(p, dt) ==
    LET velocity == <<Quot(p.velocity[1] * FRICTION_PERMILLE, 1000),
                      Quot(p.velocity[2] * FRICTION_PERMILLE, 1000)>>
        moved == Advance(p.position, velocity, dt)
    IN [p EXCEPT !.velocity = velocity,
                 !.position = <<Wrap(moved[1]), Wrap(moved[2])>>]

\* Asteroid physics update wrapping the x axis only.
AsteroidPhysicsWrapX(a, dt) ==
    LET moved == Advance(a.position, a.velocity, dt)
    IN [a EXCEPT !.position = <<Wrap(moved[1]), moved[2]>>,
                 !.rotation = @ + Quot(a.rotationSpeed * dt, MS)]

\* Asteroid physics update of one asteroid.
AsteroidPhysics(a, dt) ==
    LET moved == Advance(a.position, a.velocity, dt)
    IN [a EXCEPT !.position = <<Wrap(moved[1]), Wrap(moved[2])>>,
                 !.rotation = @ + Quot(a.rotationSpeed * dt, MS)]

BulletPhysicsLate(bs, dt) ==
    LET moved == [j \in 1..Len(bs) |->
                     [bs[j] EXCEPT !.position = Advance(bs[j].position, bs[j].velocity, dt),
                                   !.lifetime = @ - dt]]
        gone(b) == \/ b.lifetime < 0
                   \/ Abs(b.position[1]) > BULLET_BOUND
                   \/ Abs(b.position[2]) > BULLET_BOUND
    IN SelectSeq(moved, LAMBDA b : ~gone(b))

\* Bullet physics update: every bullet moves and ages; the expired ones and
\* those past the extended bounds are erased, the others keep their order.
BulletPhysics(bs, dt) ==
    LET moved == [j \in 1..Len(bs) |->
                     [bs[j] EXCEPT !.position = Advance(bs[j].position, bs[j].velocity, dt),
                                   !.lifetime = @ - dt]]
        gone(b) == \/ b.lifetime <= 0
                   \/ Abs(b.position[1]) > BULLET_BOUND
                   \/ Abs(b.position[2]) > BULLET_BOUND
    IN SelectSeq(moved, LAMBDA b : ~gone(b))

\* The ship pass testing the first asteroid only.
ShipAsteroidCheckFirstOnly(over, p, asts) ==
    IF \E j \in 1..Len(asts) :
           j = 1 /\ checkCollision(p.position, p.radius, asts[j].position, asts[j].radius)
    THEN TRUE
    ELSE over

\* Ship-asteroid collision check: the flag after the scan.
ShipAsteroidCheck(over, p, asts) ==
    IF \E j \in 1..Len(asts) :
           checkCollision(p.position, p.radius, asts[j].position, asts[j].radius)
    THEN TRUE
    ELSE over

FirstHitFromBack(a, bs) ==
    LET hits == {j \in 1..Len(bs) :
                    checkCollision(a.position, a.radius, bs[j].position, bs[j].radius)}
    IN IF hits = {} THEN 0 ELSE CHOOSE j \in hits : \A h \in hits : j >= h

\* The inner loop of the bullet pass for asteroid a: the 1-based index of the
\* first bullet overlapping it, or 0.
FirstHit(a, bs) ==
    LET hits == {j \in 1..Len(bs) :
                    checkCollision(a.position, a.radius, bs[j].position, bs[j].radius)}
    IN IF hits = {} THEN 0 ELSE CHOOSE j \in hits : \A h \in hits : j <= h

SpawnDueNoCapTest(timer, n) == timer <= 0

\* The test of the spawner block on the decremented timer and asteroids.size().
SpawnDue(timer, n) == timer <= 0 /\ n < MAX_ASTEROIDS

ScanNextRestart(index, bulletHit, size) == IF bulletHit THEN size ELSE index - 1

\* --i of the bullet pass: the loop variable after a round at i = index, with
\* the round's bulletHit and asteroids.size() after it.
ScanNext(index, bulletHit, size) == index - 1

\* currentSpawnRate after a periodic spawn.
NextSpawnRateNoFloor(rate) == rate - SPAWN_RATE_STEP

NextSpawnRate(rate) == Max(MIN_SPAWN_RATE, rate - SPAWN_RATE_STEP)

\* ------------------------------------------------------------ state
VARIABLES
    pc,                 \* where the loop body stands
    i,                  \* the loop variable i of the bullet pass
    frame,              \* frames rendered so far
    deltaTime, bulletCooldown, isGameOver, isThrusting,
    asteroidSpawnTimer, currentSpawnRate,
    player, asteroids, bullets,
    gl,                 \* the GL names in use
    guardOver,          \* isGameOver as the frame's if (!isGameOver) read it
    periodicSpawn,      \* the spawner block spawned in this frame
    lastHit,            \* what the last round of the bullet pass did
    faults,             \* contract violations seen so far
    snapshot,           \* the bullets the last frame handed to the renderer
    expiry,             \* the spawn timer's expiries: dropped at the cap, retried
    fireLog,            \* fire intent of the frame, frame delta since the last shot
    flown,              \* per bullet: frame delta since its creation, in all
                        \* frames and in the frames whose physics update ran
    born,               \* per asteroid: the frame and the code that created it
    passStart           \* the collections as the last bullet pass found them

vars ==
    <<pc, i, frame, deltaTime, bulletCooldown, isGameOver, isThrusting,
      asteroidSpawnTimer, currentSpawnRate, player, asteroids, bullets, gl,
      guardOver, periodicSpawn, lastHit, faults, snapshot, expiry, fireLog, flown, born,
      passStart>>

\* ------------------------------------------------------------ bounds
MaxFrames == 2

\* The frame deltas the clock reports, in milliseconds.
DeltaSet == {100, 1000}

NoHit ==
    [kind |-> "none", index |-> 0, before |-> <<>>, children |-> <<>>, reads |-> <<>>,
     bullet |-> 0, shots |-> <<>>, born |-> [frame |-> -1, by |-> "none"]]

\* ------------------------------------------------------------ sessions
\* An asteroid of a session under way at grid cell j, holding GL names h.
Rock(size, j, h) ==
    [size |-> size, scale |-> getScaleFactor(size), radius |-> getRadiusFactor(size),
     rotation |-> 300, rotationSpeed |-> 3000, color |-> palette[(j % 5) + 1],
     position |-> <<-8000 + 4000 * ((j - 1) % 5),
                    <<8000, 4000, -4000, -8000>>[((j - 1) \div 5) + 1]>>,
     velocity |-> IF size = "LARGE" THEN <<1000, 0>> ELSE <<3000, 0>>,
     VAO_Fill |-> h, VBO_Fill |-> h]

\* A bullet fired age ms ago that meets asteroid a after a frame of 100 ms.
ShotAt(a, age) ==
    [Bullet EXCEPT !.position = <<a.position[1] + Quot(a.velocity[1] * 100, MS),
                                  a.position[2] + Quot(a.velocity[2] * 100, MS) - 2500>>,
                   !.velocity = <<0, 25000>>,
                   !.lifetime = BULLET_LIFETIME - age]

\* A bullet fired 0.9 s ago from the upper left corner on the diagonal, which
\* stays inside the extended bounds for its whole lifetime.
Stray ==
    [Bullet EXCEPT !.position = <<6910, -6910>>,
                   !.velocity = <<17678, -17678>>,
                   !.lifetime = BULLET_LIFETIME - 900]

Field(sizes) == [j \in 1..Len(sizes) |-> Rock(sizes[j], j, GL_STATIC_NAMES + j)]

Session(sizes, targets, p, cooldown, timer, rate) ==
    [asteroids |-> Field(sizes),
     bullets |-> [n \in 1..Len(targets) |->
                     ShotAt(Field(sizes)[targets[n]], 300 + 200 * (Len(targets) - n))],
     player |-> p, bulletCooldown |-> cooldown,
     asteroidSpawnTimer |-> timer, currentSpawnRate |-> rate,
     gl |-> [GLInit EXCEPT !.vaos = 1..(GL_STATIC_NAMES + Len(sizes)),
                           !.vbos = 1..(GL_STATIC_NAMES + Len(sizes))]]

\* An asteroid on its way across the one in grid cell 1.
Crossing ==
    [Rock("LARGE", 3, GL_STATIC_NAMES + 3) EXCEPT !.position = <<-7600, 7500>>,
                                                  !.velocity = <<-1000, 0>>]

\* Two bullets fired in successive frames of 0.04 s and 0.2 s, the second one
\* 0.3 s ago: they fly 0.1 apart, the first at the centre of the asteroid in
\* grid cell 1 after a frame of 100 ms.
DoubleShot ==
    << [ShotAt(Crossing, 340) EXCEPT !.position = VAdd(@, <<0, 500>>)],
       [ShotAt(Crossing, 300) EXCEPT !.position = VAdd(@, <<0, -500>>)] >>

\* An asteroid moving along the top edge of the world, inside it.
Skimming ==
    [Rock("MEDIUM", 2, GL_STATIC_NAMES + 2) EXCEPT !.position = <<-4000, 9900>>]

L == "LARGE"
M == "MEDIUM"
S == "SMALL"

\* A session whose spawn timer starts at the initial interval.
FreshSessionFullTimer == Session(<<>>, <<>>, Ship, 0, INITIAL_SPAWN_RATE, INITIAL_SPAWN_RATE)

\* The state main enters the loop in.
FreshSession == Session(<<>>, <<>>, Ship, 0, 0, INITIAL_SPAWN_RATE)

\* Sessions under way: the population at the cap with the spawn timer about to
\* expire, after 3 s of turning left; one below the cap, after 3 s of turning
\* right; a small field with the spawn interval one step
\* above its floor and the ship near the bottom edge, facing down; an
\* asteroid about to reach the ship, which faces left or
\* up; two bullets about to reach two asteroids that overlap; an asteroid on
\* its way to the ship, whose circle it touches after 0.1 s; an asteroid
\* about to reach the ship while a bullet is about to reach another one
\* that moves along the top edge.
Sessions ==
    { FreshSession,
      Session(<<L, L, M, L, S, L, L, M, L, L, L, S, L, L, M, L, L, L, M, L>>,
              <<5, 19>>, [Ship EXCEPT !.rotation = 3 * ROTATION_SPEED],
              -50, 50, MIN_SPAWN_RATE),
      Session(<<L, M, M, L, S, L, L, M, L, L, L, S, L, L, M, L, L, L, M>>,
              <<3, 7>>, [Ship EXCEPT !.rotation = -3 * ROTATION_SPEED],
              100, 2000, MIN_SPAWN_RATE + 5 * SPAWN_RATE_STEP),
      Session(<<L, M, S>>, <<1, 2, 3>>,
              [Ship EXCEPT !.position = <<0, -7000>>, !.rotation = PI], 0, 100,
              MIN_SPAWN_RATE + SPAWN_RATE_STEP),
      Session(<<L, L, L, L, L, L, M, S>>, <<1>>,
              [Ship EXCEPT !.position = <<5950, 8000>>, !.rotation = HALF_PI],
              -50, 3000, MIN_SPAWN_RATE + 20 * SPAWN_RATE_STEP),
      [Session(<<L, L, L, L, L, L, M, S>>, <<>>,
               [Ship EXCEPT !.position = <<5950, 8000>>],
               0, 1050, MIN_SPAWN_RATE + 20 * SPAWN_RATE_STEP)
          EXCEPT !.bullets = <<Stray>>],
      [Session(<<S, M, L>>, <<>>, Ship, 100, 3000,
               MIN_SPAWN_RATE + 10 * SPAWN_RATE_STEP)
          EXCEPT !.asteroids[3] = Crossing, !.bullets = DoubleShot],
      Session(<<M, S, M, L>>, <<>>, [Ship EXCEPT !.position = <<6000, 8000>>],
              0, 3000, MIN_SPAWN_RATE + 15 * SPAWN_RATE_STEP),
      [Session(<<L, M>>, <<>>, [Ship EXCEPT !.position = <<-6050, 8000>>],
               0, 1050, MIN_SPAWN_RATE + 12 * SPAWN_RATE_STEP)
          EXCEPT !.asteroids[2] = Skimming, !.bullets = <<ShotAt(Skimming, 300)>>] }

Init ==
    \E s \in Sessions :
        /\ pc = "input"
        /\ i = 0
        /\ frame = 0
        /\ deltaTime = 0
        /\ bulletCooldown = s.bulletCooldown
        /\ isGameOver = FALSE
        /\ isThrusting = FALSE
        /\ asteroidSpawnTimer = s.asteroidSpawnTimer
        /\ currentSpawnRate = s.currentSpawnRate
        /\ player = s.player
        /\ asteroids = s.asteroids
        /\ bullets = s.bullets
        /\ gl = s.gl
        /\ guardOver = FALSE
        /\ periodicSpawn = FALSE
        /\ lastHit = NoHit
        /\ faults = {}
        /\ snapshot = [bullets |-> s.bullets]
        /\ expiry = [dropped |-> FALSE, retried |-> FALSE]
        /\ flown = [n \in 1..Len(s.bullets) |->
                       [all |-> BULLET_LIFETIME - s.bullets[n].lifetime,
                        run |-> BULLET_LIFETIME - s.bullets[n].lifetime]]
        /\ passStart = [asteroids |-> <<>>, bullets |-> <<>>]
        /\ born = [j \in 1..Len(s.asteroids) |-> [frame |-> -1, by |-> "session"]]
        /\ fireLog = [fire |-> FALSE,
                      since |-> IF s = FreshSession THEN -1
                                ELSE FIRE_RATE - s.bulletCooldown]

\* ------------------------------------------------------------ the loop body
\* Frame start: the clock is read, the fire cooldown runs down, processInput
\* runs, and if (!isGameOver) is decided.
BeginFrame ==
    /\ pc = "input"
    /\ frame < MaxFrames
    /\ \E dt \in DeltaSet, keys \in KeySets :
        LET r == processInput([player |-> player, isThrusting |-> isThrusting,
                               bullets |-> bullets,
                               bulletCooldown |-> bulletCooldown - dt,
                               isGameOver |-> isGameOver], dt, keys)
        IN /\ deltaTime' = dt
           /\ player' = r.player
           /\ isThrusting' = r.isThrusting
           /\ bullets' = r.bullets
           /\ bulletCooldown' = r.bulletCooldown
           /\ isGameOver' = r.isGameOver
           /\ guardOver' = r.isGameOver
           /\ pc' = AfterInput(r.isGameOver)
           /\ flown' = [n \in 1..Len(r.bullets) |->
                           IF n <= Len(flown)
                           THEN [flown[n] EXCEPT !.all = @ + dt]
                           ELSE [all |-> dt, run |-> 0]]
           /\ fireLog' = [fire |-> "SPACE" \in keys,
                          since |-> IF Len(r.bullets) > Len(bullets) THEN 0
                                    ELSE IF fireLog.since < 0 THEN -1
                                    ELSE fireLog.since + dt]
    /\ periodicSpawn' = FALSE
    /\ lastHit' = NoHit
    /\ UNCHANGED <<i, frame, asteroidSpawnTimer, currentSpawnRate,
                   asteroids, gl, faults, snapshot, expiry, born, passStart>>

\* The spawner block.
Spawner ==
    /\ pc = "spawner"
    /\ LET timer == asteroidSpawnTimer - deltaTime
       IN IF SpawnDue(timer, Len(asteroids))
          THEN \E roll \in Rolls :
                  LET w == spawnNewAsteroid([asteroids |-> asteroids, gl |-> gl],
                                            <<0, 0>>, "LARGE", roll)
                  IN /\ asteroids' = w.asteroids
                     /\ gl' = w.gl
                     /\ currentSpawnRate' = NextSpawnRate(currentSpawnRate)
                     /\ asteroidSpawnTimer' = NextSpawnRate(currentSpawnRate)
                     /\ periodicSpawn' = TRUE
                     /\ expiry' = [dropped |-> FALSE, retried |-> expiry.dropped]
                     /\ born' = IF Len(w.asteroids) > Len(asteroids)
                                THEN Append(born, [frame |-> frame, by |-> "spawner"])
                                ELSE born
          ELSE /\ asteroidSpawnTimer' = timer
               /\ expiry' = [dropped |-> timer <= 0, retried |-> FALSE]
               /\ UNCHANGED <<asteroids, gl, currentSpawnRate, periodicSpawn, born>>
    /\ pc' = "physics"
    /\ UNCHANGED <<i, frame, deltaTime, bulletCooldown, isGameOver, isThrusting,
                   player, bullets, guardOver, lastHit, faults, snapshot, fireLog, flown,
                   passStart>>

\* Player, asteroid and bullet physics updates.
Physics ==
    /\ pc = "physics"
    /\ player' = PlayerPhysics(player, deltaTime)
    /\ asteroids' = [j \in 1..Len(asteroids) |-> AsteroidPhysics(asteroids[j], deltaTime)]
    /\ LET tagged == [j \in 1..Len(bullets) |-> bullets[j] @@ flown[j]]
           left == BulletPhysics(tagged, deltaTime)
       IN /\ bullets' = [n \in 1..Len(left) |->
                            [position |-> left[n].position, velocity |-> left[n].velocity,
                             scale |-> left[n].scale, radius |-> left[n].radius,
                             lifetime |-> left[n].lifetime]]
          /\ flown' = [n \in 1..Len(left) |->
                          [all |-> left[n].all, run |-> left[n].run + deltaTime]]
    /\ pc' = "shipPass"
    /\ UNCHANGED <<i, frame, deltaTime, bulletCooldown, isGameOver, isThrusting,
                   asteroidSpawnTimer, currentSpawnRate, gl, guardOver,
                   periodicSpawn, lastHit, faults, snapshot, expiry, fireLog, born,
                   passStart>>

\* Ship-asteroid collision check, then the bullet pass sets i = asteroids.size().
ShipPass ==
    /\ pc = "shipPass"
    /\ isGameOver' = ShipAsteroidCheck(isGameOver, player, asteroids)
    /\ i' = Len(asteroids)
    /\ passStart' = [asteroids |-> asteroids, bullets |-> bullets]
    /\ pc' = IF Len(asteroids) > 0 THEN "bulletPass" ELSE "render"
    /\ UNCHANGED <<frame, deltaTime, bulletCooldown, isThrusting, asteroidSpawnTimer,
                   currentSpawnRate, player, asteroids, bullets, gl, guardOver,
                   periodicSpawn, lastHit, faults, snapshot, expiry, fireLog, flown,
                   born>>

\* One round of the bullet pass, for index = i - 1 (element i here).
BulletPassRound ==
    /\ pc = "bulletPass"
    /\ i > 0
    /\ IF i > Len(asteroids)
       THEN /\ faults' = faults \cup {"index_out_of_bounds"}
            /\ lastHit' = NoHit
            /\ UNCHANGED <<asteroids, bullets, gl, flown, born>>
       ELSE
          LET j == FirstHit(asteroids[i], bullets)
          IN IF j = 0
             THEN /\ lastHit' = NoHit
                  /\ UNCHANGED <<asteroids, bullets, gl, faults, flown, born>>
             ELSE
                /\ bullets' = EraseAt(bullets, j)
                /\ flown' = EraseAt(flown, j)
                /\ IF asteroids[i].size = "SMALL"
                   THEN /\ gl' = ReleaseShape(asteroids[i], gl)
                        /\ asteroids' = EraseAt(asteroids, i)
                        /\ lastHit' = [kind |-> "destroy", index |-> i,
                                       before |-> asteroids,
                                       children |-> <<>>, reads |-> <<>>,
                                       bullet |-> j, shots |-> bullets,
                                       born |-> born[i]]
                        /\ born' = EraseAt(born, i)
                        /\ UNCHANGED faults
                   ELSE
                      \E residue \in {asteroids[i], JunkRock},
                         d1 \in SplitDraws, d2 \in SplitDraws :
                          \E r \in {splitAsteroid([asteroids |-> asteroids, gl |-> gl],
                                                  i, residue, <<d1, d2>>)} :
                             /\ asteroids' = r.asteroids
                             /\ gl' = r.gl
                             /\ lastHit' = [kind |-> "split", index |-> i,
                                            before |-> asteroids,
                                            children |-> r.children,
                                            reads |-> r.reads,
                                            bullet |-> j, shots |-> bullets,
                                            born |-> born[i]]
                             /\ born' = EraseAt(born, i) \o
                                           [n \in 1..Len(r.children) |->
                                               [frame |-> frame, by |-> "split"]]
                             /\ faults' = IF r.reads # <<>>
                                          THEN faults \cup {"stale_reference_read"}
                                          ELSE faults
    /\ i' = ScanNext(i, lastHit'.kind # "none", Len(asteroids'))
    /\ pc' = IF i' > 0 THEN "bulletPass" ELSE "render"
    /\ UNCHANGED <<frame, deltaTime, bulletCooldown, isGameOver, isThrusting,
                   asteroidSpawnTimer, currentSpawnRate, player, guardOver,
                   periodicSpawn, snapshot, expiry, fireLog, passStart>>

\* Rendering commands: the entities are drawn as they stand, and the loop
\* goes round.
Render ==
    /\ pc = "render"
    /\ snapshot' = [bullets |-> bullets]
    /\ frame' = frame + 1
    /\ pc' = "input"
    /\ UNCHANGED <<i, deltaTime, bulletCooldown, isGameOver, isThrusting,
                   asteroidSpawnTimer, currentSpawnRate, player, asteroids, bullets,
                   gl, guardOver, periodicSpawn, lastHit, faults, expiry, fireLog, flown,
                   born, passStart>>

Next ==
    \/ BeginFrame
    \/ Spawner
    \/ Physics
    \/ ShipPass
    \/ BulletPassRound
    \/ Render

Spec == Init /\ [][Next]_vars

\* ------------------------------------------------------------ properties
\* The hit the last round of the bullet pass made, read off lastHit.
HitParent == lastHit.before[lastHit.index]

HitPopBefore == Len(lastHit.before)

HitAdded == Len(lastHit.children)

NextSmaller(size) == IF size = "LARGE" THEN "MEDIUM" ELSE "SMALL"

\* The collection after the hit is the one before it with the element at the
\* hit index gone, followed by the children.
ParentRemovedChildrenAppended ==
    /\ Len(asteroids) = HitPopBefore - 1 + HitAdded
    /\ \A j \in 1..(HitPopBefore - 1) :
          asteroids[j] = lastHit.before[IF j < lastHit.index THEN j ELSE j + 1]
    /\ \A n \in 1..HitAdded :
          asteroids[HitPopBefore - 1 + n] = lastHit.children[n]

\* C1: in every reachable state the asteroid collection holds at most 20
\* asteroids, whatever spawns, splits and destructions have occurred.
C1_PopulationCap == Len(asteroids) <= 20

\* A periodic spawn whose timer has expired is dropped at a full collection.
C1_Witness ==
    /\ pc = "physics"
    /\ Len(asteroids) = 20
    /\ asteroidSpawnTimer <= 0
    /\ ~periodicSpawn

\* C2: the GL names acquired for asteroids and not yet released are exactly
\* the names the live asteroids hold, each held by one asteroid, and no name
\* is released that is not live.
C2_HandlesBalanced ==
    LET heldVAO == {asteroids[k].VAO_Fill : k \in 1..Len(asteroids)}
        heldVBO == {asteroids[k].VBO_Fill : k \in 1..Len(asteroids)}
        static == 1..GL_STATIC_NAMES
    IN /\ gl.vaos \ static = heldVAO
       /\ gl.vbos \ static = heldVBO
       /\ heldVAO \cap static = {}
       /\ heldVBO \cap static = {}
       /\ Cardinality(heldVAO) = Len(asteroids)
       /\ Cardinality(heldVBO) = Len(asteroids)
       /\ ~gl.badDelete

\* A split released the parent's names and a child acquired them again.
C2_Witness ==
    /\ lastHit.kind = "split"
    /\ HitAdded = 2
    /\ lastHit.children[1].VAO_Fill = HitParent.VAO_Fill

\* C3: once isGameOver is true it is true in every later state.
C3_GameOverTerminal == [][isGameOver => isGameOver']_vars

\* A frame that began with the game over has been rendered, input included.
C3_Witness ==
    /\ isGameOver
    /\ guardOver
    /\ pc = "input"
    /\ frame = 2

\* C4 as stated: a hit on a LARGE or MEDIUM asteroid removes the parent and
\* adds exactly two children of the next smaller size, at every population.
C4_ExactlyTwoChildren ==
    lastHit.kind = "split" =>
        /\ HitAdded = 2
        /\ \A n \in 1..HitAdded : lastHit.children[n].size = NextSmaller(HitParent.size)
        /\ ParentRemovedChildrenAppended

\* C4 amended: a hit on a LARGE or MEDIUM asteroid removes the parent and adds
\* two children of the next smaller size when the population before the hit
\* was below 20, and one such child when it was 20.
C4_TwoChildrenBelowCap ==
    lastHit.kind = "split" =>
        /\ HitParent.size \in {"LARGE", "MEDIUM"}
        /\ HitAdded = (IF HitPopBefore < 20 THEN 2 ELSE 1)
        /\ \A n \in 1..HitAdded : lastHit.children[n].size = NextSmaller(HitParent.size)
        /\ ParentRemovedChildrenAppended

\* A LARGE asteroid was split below the cap into two MEDIUM ones.
C4_Witness ==
    /\ lastHit.kind = "split"
    /\ HitParent.size = "LARGE"
    /\ HitPopBefore = 19
    /\ HitAdded = 2

\* C5 as stated: a split adds 0 to 2 children, 0 when the population was at
\* the cap at the hit, the population afterwards is the one before - 1 +
\* children added, and a hit on a SMALL asteroid adds none.
C5_NoChildAtCap ==
    /\ lastHit.kind = "split" =>
          /\ HitAdded \in 0..2
          /\ (HitPopBefore = 20 => HitAdded = 0)
          /\ Len(asteroids) = HitPopBefore - 1 + HitAdded
    /\ lastHit.kind = "destroy" => Len(asteroids) = HitPopBefore - 1

\* C5 amended: a split adds 0 to 2 children, 1 (not 0) when the population
\* was at the cap at the hit, the population afterwards is the one before - 1
\* + children added, and a hit on a SMALL asteroid adds none.
C5_OneChildAtCap ==
    /\ lastHit.kind = "split" =>
          /\ HitAdded \in 0..2
          /\ (HitPopBefore = 20 => HitAdded = 1)
          /\ Len(asteroids) = HitPopBefore - 1 + HitAdded
    /\ lastHit.kind = "destroy" =>
          /\ HitParent.size = "SMALL"
          /\ Len(asteroids) = HitPopBefore - 1

\* A split at a full collection left it full with one child added.
C5_Witness ==
    /\ lastHit.kind = "split"
    /\ HitPopBefore = 20
    /\ HitAdded = 1
    /\ Len(asteroids) = 20

\* C6: each child of a split lies within parent.scale * 0.25 of the hit
\* parent's last position on each axis.
C6_ChildrenNearParent ==
    lastHit.kind = "split" =>
        \A n \in 1..HitAdded :
            /\ Abs(lastHit.children[n].position[1] - HitParent.position[1])
                  <= Quot(HitParent.scale * 25, 100)
            /\ Abs(lastHit.children[n].position[2] - HitParent.position[2])
                  <= Quot(HitParent.scale * 25, 100)

\* C7: in the bullet pass no index is out of bounds and no asteroid record is
\* read after its removal from the collection.
C7_NoStaleAccess ==
    /\ "index_out_of_bounds" \notin faults
    /\ "stale_reference_read" \notin faults

\* C8 as stated: while isGameOver is true no bullet is removed for a hit and
\* no asteroid is split or destroyed, the rest of the frame that set the flag
\* included.
C8_NoHitWhileOver ==
    [][isGameOver => (asteroids' = asteroids /\ Len(bullets') >= Len(bullets))]_vars

\* C8 amended: in a frame that starts with isGameOver set both collision
\* passes are skipped, so no bullet is removed for a hit and no asteroid is
\* split or destroyed in it; the frame in which the ship pass sets the flag
\* still runs its bullet pass.
C8_PassesSkippedInOverFrames ==
    [][((pc = "input" /\ isGameOver) \/ (pc # "input" /\ guardOver)) =>
           /\ asteroids' = asteroids
           /\ Len(bullets') >= Len(bullets)
           /\ pc' \in {"input", "render"}]_vars

\* A frame that began with the game over reached the renderer with a bullet
\* overlapping an asteroid, which a bullet pass would have consumed.
C8_Witness ==
    /\ guardOver
    /\ pc = "render"
    /\ \E k \in 1..Len(asteroids), j \in 1..Len(bullets) :
          checkCollision(asteroids[k].position, asteroids[k].radius,
                         bullets[j].position, bullets[j].radius)

\* C9: in a frame that starts with isGameOver set, the bullets handed to the
\* renderer are those of the previous frame, whatever fire intent is held.
C9_BulletsFrozenWhenOver ==
    (pc = "render" /\ guardOver) => bullets = snapshot.bullets

\* C10: the spawn interval never rises, never falls below 1.0 s, falls by
\* exactly 0.1 s at each periodic spawn until it is at the floor, and changes
\* in no other step.
C10_SpawnRateRamp ==
    [][/\ currentSpawnRate' <= currentSpawnRate
       /\ currentSpawnRate' >= 1000
       /\ (pc = "spawner" /\ periodicSpawn') =>
              currentSpawnRate' =
                  (IF currentSpawnRate > 1000 THEN currentSpawnRate - 100 ELSE 1000)
       /\ ~(pc = "spawner" /\ periodicSpawn') =>
              currentSpawnRate' = currentSpawnRate]_vars

\* A periodic spawn took the interval from 1.1 s to the floor, and the next
\* one left it there.
C10_Witness ==
    /\ pc = "physics"
    /\ periodicSpawn
    /\ frame = 1
    /\ currentSpawnRate = 1000
    /\ asteroidSpawnTimer = 1000
    /\ Len(asteroids) = 5

\* C11 as stated: a spawn-timer expiry met with the population at 20 is
\* dropped for good; no periodic spawn in a later frame comes from it, each
\* one follows a reset of the timer and a fresh expiry.
C11_DroppedNotRetried == ~expiry.retried

\* C11 amended: the spawner block spawns in exactly the frames where the
\* decremented timer is <= 0 and the population is below 20, and resets the
\* timer to the new interval only then; an expiry met at 20 leaves the timer
\* running down below 0, so the spawn follows in the first running frame
\* with the population below 20.
C11_ExpiredTimerSpawnsWhenRoom ==
    [][pc = "spawner" =>
          IF asteroidSpawnTimer - deltaTime <= 0 /\ Len(asteroids) < 20
          THEN /\ periodicSpawn'
               /\ Len(asteroids') = Len(asteroids) + 1
               /\ asteroidSpawnTimer' = currentSpawnRate'
          ELSE /\ ~periodicSpawn'
               /\ asteroids' = asteroids
               /\ asteroidSpawnTimer' = asteroidSpawnTimer - deltaTime]_vars

\* The timer expired at a full collection, a hit made room, and the next
\* frame's spawner block spawned without any reset in between.
C11_Witness ==
    /\ pc = "physics"
    /\ periodicSpawn
    /\ expiry.retried
    /\ frame = 1
    /\ Len(asteroids) = 20

\* C12: in the input step of a frame a bullet is created only if the
\* cooldown minus the frame's delta is <= 0, and then the cooldown becomes
\* 0.2 s; a creation never follows the one before by less than 0.2 s of
\* accumulated frame delta; and with the fire intent held a bullet is created
\* in the first frame in which 0.2 s have accumulated.
C12_CooldownGating ==
    [][pc = "input" =>
          LET created == Len(bullets') = Len(bullets) + 1
              expired == fireLog.since < 0 \/ fireLog.since + deltaTime' >= 200
          IN /\ created \/ bullets' = bullets
             /\ created => /\ bulletCooldown - deltaTime' <= 0
                           /\ bulletCooldown' = 200
                           /\ expired
             /\ ~created => bulletCooldown' = bulletCooldown - deltaTime'
             /\ (fireLog'.fire /\ expired) => created]_vars

\* A bullet was created in the first frame, 0.1 s later the fire intent is
\* held again and no bullet is created.
C12_Witness ==
    /\ pc = "spawner"
    /\ frame = 1
    /\ fireLog.fire
    /\ fireLog.since = 100
    /\ bulletCooldown = 100

\* The bullets the physics update keeps when ageOf(j) is the age it goes by:
\* their indices in order.
KeptBy(ageOf(_)) ==
    SelectSeq([j \in 1..Len(bullets) |-> j],
              LAMBDA j :
                  LET moved == Advance(bullets[j].position, bullets[j].velocity, deltaTime)
                  IN /\ ageOf(j) < 1000
                     /\ Abs(moved[1]) <= 15000
                     /\ Abs(moved[2]) <= 15000)

AgeInAllFrames(j) == flown[j].all

AgeInRunningFrames(j) == flown[j].run + deltaTime

\* C13 as stated: a bullet leaves the collection in the physics update of the
\* first frame at which the frame delta accumulated since its creation is
\* >= 1.0 s, or when it is past |x| > 1.5 or |y| > 1.5, in no other step, and
\* no bullet with 1.0 s or more behind it is handed to the renderer.
C13_RemovedAtOneSecond ==
    [][/\ pc = "physics" =>
            flown' = [n \in 1..Len(KeptBy(AgeInAllFrames)) |->
                         [flown[KeptBy(AgeInAllFrames)[n]] EXCEPT !.run = @ + deltaTime]]
       /\ pc # "physics" => Len(flown') >= Len(flown)
       /\ pc = "render" => \A j \in 1..Len(flown) : flown[j].all < 1000]_vars

\* C13 amended: a bullet's lifetime is 1.0 s less the frame delta of the
\* running frames since its creation, that of its creation frame included;
\* the physics update removes it in the first running frame at which that
\* delta is >= 1.0 s or at which it is past |x| > 1.5 or |y| > 1.5, and no
\* sooner; the only other removal is by a hit in the bullet pass; in a frame
\* that starts with the game over no bullet ages or is removed.
C13_LifetimeInRunningFrames ==
    [][/\ Len(flown) = Len(bullets)
       /\ \A j \in 1..Len(bullets) : bullets[j].lifetime = 1000 - flown[j].run
       /\ pc = "physics" =>
            /\ flown' = [n \in 1..Len(KeptBy(AgeInRunningFrames)) |->
                            [flown[KeptBy(AgeInRunningFrames)[n]] EXCEPT
                                !.run = @ + deltaTime]]
            /\ \A j \in 1..Len(flown') : flown'[j].run < 1000
       /\ pc = "bulletPass" =>
            \/ flown' = flown
            \/ /\ lastHit'.kind # "none"
               /\ \E j \in 1..Len(flown) : flown' = EraseAt(flown, j)
       /\ pc \in {"spawner", "shipPass", "render"} => flown' = flown
       /\ pc = "input" =>
            /\ Len(flown') >= Len(flown)
            /\ \A j \in 1..Len(flown) :
                  /\ flown'[j].run = flown[j].run
                  /\ bullets'[j] = bullets[j]
            /\ isGameOver => pc' = "render"]_vars

\* A bullet that was aged by a running frame is handed to the renderer in a
\* game-over frame with 1.0 s or more of frame delta behind it.
C13_Witness ==
    /\ pc = "render"
    /\ guardOver
    /\ \E j \in 1..Len(bullets) :
          /\ flown[j].all >= 1000
          /\ flown[j].run > 0
          /\ bullets[j].lifetime > 0

\* The coordinates the physics update of this step computes before it wraps
\* them, for the ship and for asteroid j, and what it leaves in their place.
ShipMoved == Advance(player.position, player'.velocity, deltaTime)

RockMoved(j) == Advance(asteroids[j].position, asteroids[j].velocity, deltaTime)

EveryWrappedCoordinate(Law(_, _)) ==
    \A axis \in 1..2 :
        /\ Law(ShipMoved[axis], player'.position[axis])
        /\ \A j \in 1..Len(asteroids) :
              Law(RockMoved(j)[axis], asteroids'[j].position[axis])

AtOrBeyondGoesOpposite(moved, left) ==
    /\ moved >= 10000 => left = -10000
    /\ moved <= -10000 => left = 10000

BeyondGoesOpposite(moved, left) ==
    /\ moved > 10000 => left = -10000
    /\ moved < -10000 => left = 10000
    /\ (moved >= -10000 /\ moved <= 10000) => left = moved
    /\ left >= -10000 /\ left <= 10000

\* C14 as stated: a ship or asteroid coordinate that the position update
\* puts at +1.0 or -1.0 or beyond is left at the opposite bound.
C14_WrapAtOrBeyond ==
    [][pc = "physics" => EveryWrappedCoordinate(AtOrBeyondGoesOpposite)]_vars

\* C14 amended: a coordinate that the position update puts beyond a bound
\* (> 1.0 or < -1.0) is left at the opposite bound; one put exactly at +1.0
\* or -1.0, or inside, is left as it is; so each coordinate is in [-1,1]
\* after the step, each axis by itself.
C14_WrapBeyondOnly ==
    [][pc = "physics" => EveryWrappedCoordinate(BeyondGoesOpposite)]_vars

\* An asteroid spawned at y = 1.1 was moved to y = 1.0 exactly and stays
\* there, while another one that went past x = 1.0 is at x = -1.0.
C14_Witness ==
    /\ pc = "shipPass"
    /\ periodicSpawn
    /\ asteroids[Len(asteroids)].position = <<0, 10000>>
    /\ \E j \in 1..Len(asteroids) :
          /\ asteroids[j].position[1] = -10000
          /\ asteroids[j].velocity[1] > 0

\* C15 as stated: once a frame's input has been applied the ship's rotation
\* is in [0, 2*pi).
C15_RotationNonNegative ==
    (pc # "input" \/ frame > 0) => (player.rotation >= 0 /\ player.rotation < 62832)

\* C15 amended: the ship's rotation is always strictly between -2*pi and
\* 2*pi; it is negative after more right than left turning.
C15_RotationWithinOneTurn == player.rotation > -62832 /\ player.rotation < 62832

\* Turning right took the rotation past -2*pi and the wrap left it negative.
C15_Witness ==
    /\ pc = "spawner"
    /\ deltaTime = 1000
    /\ player.rotation = -17168

\* Bullet b overlaps asteroid a.
Overlaps(a, b) == checkCollision(a.position, a.radius, b.position, b.radius)

\* C16: the bullet pass starts at the highest index and goes down by one per
\* round; a round leaves the asteroids below its index alone; if no bullet
\* overlaps the round's asteroid nothing changes, otherwise the asteroid is hit
\* and the lowest-index overlapping bullet, and only it, is removed at once:
\* one bullet removed per asteroid hit.
C16_HitPairing ==
    [][/\ pc = "shipPass" => i' = Len(asteroids)
       /\ pc = "bulletPass" =>
            LET over == {j \in 1..Len(bullets) : Overlaps(asteroids[i], bullets[j])}
            IN /\ i \in 1..Len(asteroids)
               /\ i' = i - 1
               /\ \A k \in 1..(i - 1) : asteroids'[k] = asteroids[k]
               /\ IF over = {}
                  THEN /\ lastHit'.kind = "none"
                       /\ bullets' = bullets
                       /\ asteroids' = asteroids
                  ELSE /\ lastHit'.kind # "none"
                       /\ lastHit'.index = i
                       /\ \A h \in over : lastHit'.bullet <= h
                       /\ lastHit'.bullet \in over
                       /\ bullets' = EraseAt(bullets, lastHit'.bullet)
                       /\ Len(asteroids') = Len(asteroids) - 1 + Len(lastHit'.children)
                       /\ \A k \in i..(Len(asteroids) - 1) : asteroids'[k] = asteroids[k + 1]]_vars

\* A round found two bullets overlapping its asteroid and took the one with
\* the lower index, which also overlapped an asteroid further down the scan;
\* the other bullet is still in the collection.
C16_Witness ==
    /\ lastHit.kind # "none"
    /\ \E h \in (lastHit.bullet + 1)..Len(lastHit.shots) :
          /\ Overlaps(HitParent, lastHit.shots[h])
          /\ bullets[h - 1] = lastHit.shots[h]
    /\ \E k \in 1..(lastHit.index - 1) :
          Overlaps(lastHit.before[k], lastHit.shots[lastHit.bullet])

\* C17 as stated: the bullet pass scans no asteroid that a split of the same
\* frame created, and an asteroid it hits was created in an earlier frame.
C17_HitOnlyAfterCreationFrame ==
    [][pc = "bulletPass" =>
          /\ born[i] # [frame |-> frame, by |-> "split"]
          /\ lastHit'.kind # "none" => born[i].frame < frame]_vars

\* C17 amended: the bullet pass scans, from the top index down and each at
\* most once, the asteroids that were in the collection when it began, so no
\* asteroid that a split of the same frame created is tested against a
\* bullet; the children of a round are of this frame and lie above the
\* indices still to be scanned.  An asteroid the spawner block created in the
\* same frame is in the collection when the pass begins and can be hit in it.
C17_ChildrenNotScanned ==
    [][pc = "bulletPass" =>
          /\ born[i] # [frame |-> frame, by |-> "split"]
          /\ i' = i - 1
          /\ Len(born') = Len(asteroids')
          /\ \A k \in 1..(i - 1) : asteroids'[k] = asteroids[k] /\ born'[k] = born[k]
          /\ \A k \in 1..Len(born') :
                (born'[k] = [frame |-> frame, by |-> "split"]) => k >= i
          /\ lastHit'.kind # "none" =>
                \/ born[i].frame < frame
                \/ born[i] = [frame |-> frame, by |-> "spawner"]]_vars

\* A round has split an asteroid, a bullet still in the collection overlaps
\* one of the two children, and the scan has rounds left to go.
C17_Witness ==
    /\ pc = "bulletPass"
    /\ lastHit.kind = "split"
    /\ HitAdded = 2
    /\ i >= 1
    /\ \E n \in 1..HitAdded, j \in 1..Len(bullets) :
          Overlaps(lastHit.children[n], bullets[j])

\* The pairs the claim is about: a SMALL asteroid and a bullet at one and the
\* same position when the frame's bullet pass began, by their indices then.
SmallAt(k) == passStart.asteroids[k]

ShotIn(j) == passStart.bullets[j]

CoLocated ==
    {c \in (1..Len(passStart.asteroids)) \X (1..Len(passStart.bullets)) :
        /\ SmallAt(c[1]).size = "SMALL"
        /\ SmallAt(c[1]).position = ShotIn(c[2]).position}

StillThere(x, s) == \E n \in 1..Len(s) : s[n] = x

PassDone == pc = "render" /\ ~guardOver

\* C18 as stated: after the bullet pass of a running frame, a SMALL asteroid
\* and a bullet that were at the same position when it began are both gone,
\* whatever other bullets and asteroids there are.
C18_BothGone ==
    PassDone =>
        \A c \in CoLocated : /\ ~StillThere(SmallAt(c[1]), asteroids)
                             /\ ~StillThere(ShotIn(c[2]), bullets)

\* C18 amended: after the pass at least one of the two is gone; both are gone
\* if no bullet of lower index overlapped the asteroid and no asteroid of
\* higher index overlapped the bullet when the pass began.
C18_GoneUnlessTakenElsewhere ==
    PassDone =>
        \A c \in CoLocated :
            /\ ~StillThere(SmallAt(c[1]), asteroids) \/ ~StillThere(ShotIn(c[2]), bullets)
            /\ ( /\ \A j \in 1..(c[2] - 1) : ~Overlaps(SmallAt(c[1]), ShotIn(j))
                 /\ \A k \in (c[1] + 1)..Len(passStart.asteroids) :
                       ~Overlaps(SmallAt(k), ShotIn(c[2])) )
               => /\ ~StillThere(SmallAt(c[1]), asteroids)
                  /\ ~StillThere(ShotIn(c[2]), bullets)

\* After a pass a SMALL asteroid is still in the collection although a bullet
\* was at its position: an asteroid of higher index took the bullet.
C18_Witness ==
    /\ PassDone
    /\ \E c \in CoLocated : /\ StillThere(SmallAt(c[1]), asteroids)
                             /\ ~StillThere(ShotIn(c[2]), bullets)

\* The factor table of the size classes.
FactorOf(size) == IF size = "LARGE" THEN 1500 ELSE IF size = "MEDIUM" THEN 800 ELSE 400

MatchesTable(a) ==
    /\ a.size \in {"LARGE", "MEDIUM", "SMALL"}
    /\ a.scale = FactorOf(a.size)
    /\ a.radius = FactorOf(a.size)

\* C19: before and after every step each asteroid in the collection has the
\* scale and the radius of its size class (LARGE 0.15, MEDIUM 0.08, SMALL
\* 0.04), and an asteroid that a step leaves in the collection, at its index
\* or moved down by the erase of a hit one, keeps its size class, scale and
\* radius.
C19_SizeTable ==
    [][/\ \A k \in 1..Len(asteroids) : MatchesTable(asteroids[k])
       /\ \A k \in 1..Len(asteroids') : MatchesTable(asteroids'[k])
       /\ LET hit == pc = "bulletPass" /\ lastHit'.kind # "none"
              was(k) == IF hit /\ k >= i THEN asteroids[k + 1] ELSE asteroids[k]
              kept == IF hit THEN Len(asteroids) - 1 ELSE Len(asteroids)
          IN /\ Len(asteroids') >= kept
             /\ \A k \in 1..kept : /\ asteroids'[k].size = was(k).size
                                    /\ asteroids'[k].scale = was(k).scale
                                    /\ asteroids'[k].radius = was(k).radius]_vars

\* The collection holds asteroids of all three size classes, among them one
\* from the spawner block and two from a split of this frame.
C19_Witness ==
    /\ {asteroids[k].size : k \in 1..Len(asteroids)} = {"LARGE", "MEDIUM", "SMALL"}
    /\ \E k \in 1..Len(born) : born[k] = [frame |-> frame, by |-> "spawner"]
    /\ Cardinality({k \in 1..Len(born) : born[k] = [frame |-> frame, by |-> "split"]}) >= 2

\* C20: in every state both coordinates of the ship's position are in
\* [-1, 1].
C20_ShipInWorld ==
    /\ player.position[1] >= -10000 /\ player.position[1] <= 10000
    /\ player.position[2] >= -10000 /\ player.position[2] <= 10000

\* Thrust took the ship over the top edge and the physics update put it on
\* the bottom edge.
C20_Witness ==
    /\ pc = "shipPass"
    /\ player.position[2] = -10000
    /\ player.velocity[2] > 0
    /\ isThrusting

\* The circle of an entity.
Circle(e) == [position |-> e.position, radius |-> e.radius]

\* Circles no entity need have: at the centre, half a unit off, in a corner,
\* with no radius, a bullet's, a small and a large asteroid's.
ProbeCircles ==
    {[position |-> p, radius |-> r] :
        p \in {<<0, 0>>, <<5000, 0>>, <<-ONE, ONE>>},
        r \in {0, BULLET_RADIUS, getRadiusFactor("SMALL"), getRadiusFactor("LARGE")}}

\* The circles the collision passes take as first argument, and the probes.
RockCircles == {Circle(asteroids[k]) : k \in 1..Len(asteroids)} \cup ProbeCircles

\* The circles the collision passes test them against, and the probes.
ShotCircles ==
    {Circle(player)} \cup {Circle(bullets[j]) : j \in 1..Len(bullets)} \cup ProbeCircles

\* C21: checkCollision gives the same answer with its two circles exchanged,
\* for every asteroid circle against the ship's and every bullet's circle as
\* the collision passes of any frame find them, and for a grid of further
\* positions and radii.
C21_Symmetric ==
    pc = "shipPass"
        => \A a \in RockCircles, b \in ShotCircles :
               checkCollision(a.position, a.radius, b.position, b.radius)
                   = checkCollision(b.position, b.radius, a.position, a.radius)

\* The ship pass found an asteroid on the ship, the test being true with the
\* asteroid first as well, while a bullet within a large asteroid's diameter
\* of an asteroid does not overlap it in either order.
C21_Witness ==
    /\ pc \in {"bulletPass", "render"}
    /\ isGameOver /\ ~guardOver
    /\ \E k \in 1..Len(asteroids) :
          /\ checkCollision(asteroids[k].position, asteroids[k].radius,
                            player.position, player.radius)
          /\ asteroids[k].radius # player.radius
    /\ \E k \in 1..Len(asteroids), j \in 1..Len(bullets) :
          /\ ~checkCollision(bullets[j].position, bullets[j].radius,
                             asteroids[k].position, asteroids[k].radius)
          /\ checkCollision(bullets[j].position, asteroids[k].radius,
                            asteroids[k].position, asteroids[k].radius)

\* The squared distance between the centres of two circles.
CentreDistSq(a, b) ==
    (a.position[1] - b.position[1]) * (a.position[1] - b.position[1])
    + (a.position[2] - b.position[2]) * (a.position[2] - b.position[2])

\* The square of the sum of the radii of two circles.
RadiiSumSq(a, b) == (a.radius + b.radius) * (a.radius + b.radius)

\* C22: for every asteroid circle against the ship's and every bullet's
\* circle as the collision passes of any frame find them, and for the
\* probes, checkCollision is true exactly when the squared distance of the
\* centres is less than the square of the sum of the radii, so it is false
\* for two circles that exactly touch; and it is false for centres 0.5 apart
\* with radii 0.15 and 0.04.
C22_StrictOverlap ==
    /\ pc = "shipPass"
          => \A a \in RockCircles, b \in ShotCircles :
                 checkCollision(a.position, a.radius, b.position, b.radius)
                     <=> CentreDistSq(a, b) < RadiiSumSq(a, b)
    /\ ~checkCollision(<<0, 0>>, 1500, <<5000, 0>>, 400)
    /\ ~checkCollision(<<0, 0>>, 1500, <<0, -5000>>, 400)
    /\ ~checkCollision(<<0, 0>>, 1500, <<1900, 0>>, 400)

\* The ship pass of a running frame met an asteroid whose circle exactly
\* touches the ship's, and the game is not over.
C22_Witness ==
    /\ pc \in {"bulletPass", "render"}
    /\ ~guardOver /\ ~isGameOver
    /\ \E k \in 1..Len(asteroids) :
          /\ CentreDistSq(Circle(player), Circle(asteroids[k]))
                = RadiiSumSq(Circle(player), Circle(asteroids[k]))
          /\ RadiiSumSq(Circle(player), Circle(asteroids[k])) > 0

\* The circle of asteroid k overlaps the ship's circle.
OnShip(k) ==
    CentreDistSq(Circle(player), Circle(asteroids[k]))
        < RadiiSumSq(Circle(player), Circle(asteroids[k]))

\* C23: the ship pass, which runs in running frames only and after the
\* physics update, leaves the game-over flag true exactly when the circle of
\* some asteroid in the collection overlaps the ship's circle; no other step
\* of the frame after the frame start changes the flag, and neither the ship
\* pass nor the bullet pass changes the ship.
C23_GameOverIffOverlap ==
    [][/\ pc = "shipPass"
             => /\ ~guardOver /\ ~isGameOver
                /\ isGameOver' <=> \E k \in 1..Len(asteroids) : OnShip(k)
                /\ player' = player
       /\ pc # "shipPass" => isGameOver' = isGameOver
       /\ pc \in {"bulletPass", "render"} => player' = player]_vars

\* The ship pass ended the game on an asteroid that is not the first of the
\* collection, and the ship is where the physics update left it.
C23_Witness ==
    /\ pc \in {"bulletPass", "render"}
    /\ isGameOver /\ ~guardOver
    /\ Len(asteroids) > 1
    /\ ~OnShip(1)
    /\ \E k \in 2..Len(asteroids) : OnShip(k)
    /\ player.position = <<5950, 8000>>

\* A step of a frame that started with the game-over flag set.
InOverFrame == (pc = "input" /\ isGameOver) \/ (pc # "input" /\ guardOver)

\* C24: every step of a frame that started with the game-over flag set
\* leaves the asteroid collection, the ship's position, the spawn timer and
\* the spawn interval as they were, keeps every bullet at its index with its
\* position and lifetime, and removes no bullet.
C24_OverFrameFreezes ==
    [][InOverFrame
          => /\ asteroids' = asteroids
             /\ player'.position = player.position
             /\ asteroidSpawnTimer' = asteroidSpawnTimer
             /\ currentSpawnRate' = currentSpawnRate
             /\ Len(bullets') >= Len(bullets)
             /\ \A j \in 1..Len(bullets) :
                   /\ bullets'[j].position = bullets[j].position
                   /\ bullets'[j].lifetime = bullets[j].lifetime]_vars

\* A frame of one second that started with the game over reached the
\* renderer: asteroids are moving, the spawn timer is below the frame time, a
\* bullet in flight has less than one second left, and thrust was applied to
\* the ship.
C24_Witness ==
    /\ pc = "render" /\ guardOver
    /\ deltaTime = 1000
    /\ \E k \in 1..Len(asteroids) : asteroids[k].velocity # <<0, 0>>
    /\ asteroidSpawnTimer < deltaTime
    /\ \E j \in 1..Len(bullets) : bullets[j].lifetime < BULLET_LIFETIME
    /\ isThrusting /\ player.velocity # <<0, 0>>

\* No spawn has happened since main entered the loop: the interval is the
\* initial one, which the first spawn lowers and nothing raises.
BeforeFirstSpawn == currentSpawnRate = INITIAL_SPAWN_RATE

\* C25: until the first spawn the session is in its first frame, running,
\* with no asteroid and the spawn timer at 0 on entry; the spawner block of
\* that frame adds one LARGE asteroid and sets the spawn timer and the
\* interval to 4.9 s; and no spawn ever sets the timer to 5.0 s.
C25_FirstSpawnInFirstFrame ==
    [][/\ BeforeFirstSpawn
             => /\ frame = 0 /\ ~isGameOver
                /\ pc \in {"input", "spawner"}
                /\ asteroidSpawnTimer = 0
                /\ asteroids = <<>>
                /\ pc = "input" => pc' = "spawner"
                /\ pc = "spawner"
                      => /\ Len(asteroids') = 1
                         /\ asteroids'[1].size = "LARGE"
                         /\ asteroidSpawnTimer' = INITIAL_SPAWN_RATE - 100
                         /\ currentSpawnRate' = INITIAL_SPAWN_RATE - 100
       /\ (pc = "spawner" /\ periodicSpawn')
             => asteroidSpawnTimer' <= INITIAL_SPAWN_RATE - 100
       /\ ~(pc = "spawner" /\ periodicSpawn')
             => asteroidSpawnTimer' <= asteroidSpawnTimer]_vars

\* The spawner block of the first frame of a session made the first
\* asteroid and set the timer to 4.9 s.
C25_Witness ==
    /\ pc = "physics" /\ frame = 0
    /\ periodicSpawn
    /\ Len(asteroids) = 1 /\ asteroids[1].size = "LARGE"
    /\ born[1] = [frame |-> 0, by |-> "spawner"]
    /\ asteroidSpawnTimer = 4900
    /\ currentSpawnRate = 4900

\* Both coordinates of position p are in [-1, 1].
InWorld(p) ==
    /\ p[1] >= -WRAP_BOUND /\ p[1] <= WRAP_BOUND
    /\ p[2] >= -WRAP_BOUND /\ p[2] <= WRAP_BOUND

\* C26 as stated: in the state handed to the renderer every asteroid of the
\* collection is in [-1, 1] on both axes.
C26_AsteroidsInWorldAtRender ==
    pc = "render" => \A k \in 1..Len(asteroids) : InWorld(asteroids[k].position)

\* C26, amended: the physics update leaves every asteroid of the collection,
\* those the spawner block made at an edge in that frame included, in
\* [-1, 1] on both axes; in the state handed to the renderer an asteroid
\* outside [-1, 1] is a child of a split, made in that frame if the frame is
\* a running one, which no physics update has moved yet.
C26_OutsideOnlyUnmovedChildren ==
    /\ pc = "shipPass" => \A k \in 1..Len(asteroids) : InWorld(asteroids[k].position)
    /\ (pc = "render" /\ ~guardOver)
          => \A k \in 1..Len(asteroids) :
                \/ InWorld(asteroids[k].position)
                \/ born[k] = [frame |-> frame, by |-> "split"]
    /\ (pc = "render" /\ guardOver)
          => \A k \in 1..Len(asteroids) :
                \/ InWorld(asteroids[k].position)
                \/ born[k].by = "split" /\ born[k].frame < frame

\* A running frame hands to the renderer an asteroid that a spawner block
\* made at an edge, now inside the world, and a child of a split of that
\* frame that is outside it.
C26_Witness ==
    /\ pc = "render" /\ ~guardOver
    /\ \E k \in 1..Len(asteroids) :
          /\ born[k].by = "spawner"
          /\ InWorld(asteroids[k].position)
    /\ \E k \in 1..Len(asteroids) :
          /\ born[k] = [frame |-> frame, by |-> "split"]
          /\ ~InWorld(asteroids[k].position)

====
